---- MODULE Spec2Model ----
(***************************************************************************)
(* hayhooks/server/pipelines/models.py: the request and response schema    *)
(* builders (get_request_model, get_response_model) and the output         *)
(* normaliser (convert_component_output).                                   *)
(*                                                                         *)
(* Python values are modelled as follows.                                  *)
(*   - A dict that the code iterates (a descriptor, a component's inputs,   *)
(*     a raw output mapping, a dict of field definitions) is a sequence of  *)
(*     [key, value] entries with distinct keys, in insertion order.         *)
(*   - A typedef is a record; "default_value" \in DOMAIN typedef is the     *)
(*     test `"default_value" in typedef`.                                   *)
(*   - A type expression is [origin, args]: int is [origin |-> "int",       *)
(*     args |-> <<>>], Optional[int] is [origin |-> "Optional",             *)
(*     args |-> <<int>>].                                                   *)
(*   - Default values are named by their Python literal ("None", "0");      *)
(*     Ellipsis is the literal `...`.                                       *)
(***************************************************************************)
EXTENDS Integers, Sequences, FiniteSets, TLC

VARIABLES
    UNSUPPORTED_TYPES_MAPPING, \* the module-level substitution table
    qdrant_importable,         \* whether `from qdrant_client.http import models` succeeded at load
    pc,                        \* "idle" | "calling" | "returned"
    call,                      \* the function being called / that returned
    pipeline_name,             \* argument of the builders
    pipeline_inputs,           \* argument of get_request_model
    pipeline_outputs,          \* argument of get_response_model
    component_output,          \* argument of convert_component_output
    returned,                  \* the value the call returned (None if it raised)
    raised,                    \* TRUE iff a TypeError propagated out of the call
    stdout,                    \* what the call printed
    frames                     \* per thread: the frame of the call it is executing, with
                               \* the dicts that call created

vars == <<UNSUPPORTED_TYPES_MAPPING, qdrant_importable, pc, call, pipeline_name,
          pipeline_inputs, pipeline_outputs, component_output, returned, raised, stdout,
          frames>>

(***************************************************************************)
(* Bounds and finite domains                                               *)
(***************************************************************************)
MaxComponents == 2
MaxListLen == 3
MaxCalls == 2

CompNames == <<"first_addition", "second_addition", "double", "sum">>
FieldNames == <<"value", "add">>
OutputNames == <<"documents", "answer">>
PipelineNames == {"test_pipeline", "myPipe"}
Threads == {"t1", "t2"}

None == [kind |-> "NoneType"]
Ellipsis == "Ellipsis"
PydanticUndefined == "PydanticUndefined"
NoArg == <<>>

(***************************************************************************)
(* Python dict helpers (ordered, distinct keys)                            *)
(***************************************************************************)
Entry(k, v) == [key |-> k, value |-> v]

Keys(d) == {d[i].key : i \in 1..Len(d)}

HasKey(d, k) == \E i \in 1..Len(d) : d[i].key = k

Lookup(d, k) == d[CHOOSE i \in 1..Len(d) : d[i].key = k].value

\* d[k] = v : overwrite in place when the key exists, append otherwise
SetItem(d, k, v) ==
    IF HasKey(d, k)
    THEN [i \in 1..Len(d) |-> IF d[i].key = k THEN Entry(k, v) ELSE d[i]]
    ELSE Append(d, Entry(k, v))

\* typedef.get(k, default) on a typedef record
TypedefGet(typedef, k, default) ==
    IF k \in DOMAIN typedef THEN typedef[k] ELSE default

(***************************************************************************)
(* Type expressions                                                        *)
(***************************************************************************)
Atom(n) == [origin |-> n, args |-> <<>>]
Generic(o, t) == [origin |-> o, args |-> <<t>>]

int == Atom("int")
dict == Atom("dict")
DataFrame == Atom("DataFrame")
Filter == Atom("Filter")
Optional(t) == Generic("Optional", t)
List(t) == Generic("List", t)
Callable(t) == Generic("Callable", t)

\* generic shapes the resolver can rebuild around resolved arguments
ReconstructibleOrigins == {"Optional", "List"}

(***************************************************************************)
(* Module load: the substitution table                                     *)
(***************************************************************************)
\* a loader that registers the filter type without probing the dependency
LoadTypesMapping_AlwaysFilter(importable) ==
    [t \in {DataFrame, Filter} |-> dict]

\* UNSUPPORTED_TYPES_MAPPING = {DataFrame: dict}; the filter type is added
\* only when the optional import succeeds (ImportError: pass)
LoadTypesMapping(importable) ==
    IF importable
    THEN [t \in {DataFrame, Filter} |-> dict]
    ELSE [t \in {DataFrame} |-> dict]

(***************************************************************************)
(* The type resolver (hayhooks.server.utils.create_valid_type)             *)
(***************************************************************************)
ResolveOk(t) == [raised |-> FALSE, type |-> t]
ResolveTypeError(t) == [raised |-> TRUE, type |-> t]

RECURSIVE handle_unsupported_types(_, _)
handle_unsupported_types(type_, types_mapping) ==
    IF type_ \in DOMAIN types_mapping THEN ResolveOk(types_mapping[type_])
    ELSE IF type_.args = <<>> THEN ResolveOk(type_)
    ELSE IF type_.origin \notin ReconstructibleOrigins THEN ResolveTypeError(type_)
    ELSE LET inner == handle_unsupported_types(type_.args[1], types_mapping)
         IN  IF inner.raised THEN ResolveTypeError(type_)
             ELSE ResolveOk(Generic(type_.origin, inner.type))

(***************************************************************************)
(* pydantic.create_model(name, **field_definitions)                        *)
(* A field definition is (annotation, default); a default of `...` makes   *)
(* the field required.                                                     *)
(***************************************************************************)
FieldDefinition(annotation, default) == [annotation |-> annotation, default |-> default]

FieldInfo(name, definition) ==
    [name       |-> name,
     annotation |-> definition.annotation,
     required   |-> (definition.default = Ellipsis),
     default    |-> IF definition.default = Ellipsis
                    THEN PydanticUndefined ELSE definition.default]

create_model(model_name, field_definitions) ==
    [kind   |-> "model",
     name   |-> model_name,
     fields |-> [i \in 1..Len(field_definitions) |->
                    FieldInfo(field_definitions[i].key, field_definitions[i].value)]]

\* str.capitalize(): first character upper-cased, the rest lower-cased
Capitalize(s) ==
    CASE s = "test_pipeline" -> "Test_pipeline"
      [] s = "myPipe"        -> "Mypipe"
      [] OTHER               -> s

(***************************************************************************)
(* Results of a call                                                       *)
(***************************************************************************)
Returns(v) == [raised |-> FALSE, value |-> v, stdout |-> <<>>]
Raises(out) == [raised |-> TRUE, value |-> None, stdout |-> out]

(***************************************************************************)
(* get_request_model                                                       *)
(***************************************************************************)
\* print(f"ERROR at {component_name!r}, {name}: {typedef}")
RequestDiagnostic(component_name, name, typedef) ==
    [component |-> component_name, field |-> name, typedef |-> typedef]

\* (input_type, typedef.get("default_value", ...))
RequestFieldDefinition(input_type, typedef) ==
    FieldDefinition(input_type, TypedefGet(typedef, "default_value", Ellipsis))

\* a loop that leaves non-mandatory inputs out of the component model
RECURSIVE RequestComponentLoop_SkipOptional(_, _, _, _)
RequestComponentLoop_SkipOptional(component_name, inputs, types_mapping, component_model) ==
    IF inputs = <<>> THEN Returns(component_model)
    ELSE LET name == inputs[1].key
             typedef == inputs[1].value
             r == handle_unsupported_types(typedef.type, types_mapping)
         IN  IF r.raised
             THEN Raises(<<RequestDiagnostic(component_name, name, typedef)>>)
             ELSE RequestComponentLoop_SkipOptional(component_name, Tail(inputs), types_mapping,
                      IF typedef.is_mandatory
                      THEN SetItem(component_model, name, RequestFieldDefinition(r.type, typedef))
                      ELSE component_model)

\* a loop that prints the diagnostic and carries on without the failing input
RECURSIVE RequestComponentLoop_Swallow(_, _, _, _)
RequestComponentLoop_Swallow(component_name, inputs, types_mapping, component_model) ==
    IF inputs = <<>> THEN Returns(component_model)
    ELSE LET name == inputs[1].key
             typedef == inputs[1].value
             r == handle_unsupported_types(typedef.type, types_mapping)
         IN  RequestComponentLoop_Swallow(component_name, Tail(inputs), types_mapping,
                 IF r.raised THEN component_model
                 ELSE SetItem(component_model, name, RequestFieldDefinition(r.type, typedef)))

\* for name, typedef in inputs.items(): resolve, on TypeError print and re-raise,
\* else component_model[name] = (input_type, default)
RECURSIVE RequestComponentLoop(_, _, _, _)
RequestComponentLoop(component_name, inputs, types_mapping, component_model) ==
    IF inputs = <<>> THEN Returns(component_model)
    ELSE LET name == inputs[1].key
             typedef == inputs[1].value
             r == handle_unsupported_types(typedef.type, types_mapping)
         IN  IF r.raised
             THEN Raises(<<RequestDiagnostic(component_name, name, typedef)>>)
             ELSE RequestComponentLoop(component_name, Tail(inputs), types_mapping,
                      SetItem(component_model, name, RequestFieldDefinition(r.type, typedef)))

\* a top-level definition that is optional when no input of the component is required
RequestTopLevelDefinition_OptionalWhenAllDefaulted(component_model) ==
    FieldDefinition(create_model("ComponentParams", component_model),
                    IF \E i \in 1..Len(component_model) : component_model[i].value.default = Ellipsis
                    THEN Ellipsis ELSE "None")

\* (create_model("ComponentParams", **component_model), ...)
RequestTopLevelDefinition(component_model) ==
    FieldDefinition(create_model("ComponentParams", component_model), Ellipsis)

\* for component_name, inputs in pipeline_inputs.items(): ...
RECURSIVE RequestPipelineLoop(_, _, _)
RequestPipelineLoop(components, types_mapping, request_model) ==
    IF components = <<>> THEN Returns(request_model)
    ELSE LET component_name == components[1].key
             inner == RequestComponentLoop(component_name, components[1].value,
                                           types_mapping, <<>>)
         IN  IF inner.raised THEN inner
             ELSE RequestPipelineLoop(Tail(components), types_mapping,
                      SetItem(request_model, component_name,
                              RequestTopLevelDefinition(inner.value)))

get_request_model(name, inputs, types_mapping) ==
    LET built == RequestPipelineLoop(inputs, types_mapping, <<>>)
    IN  IF built.raised THEN built
        ELSE Returns(create_model(Capitalize(name) \o "RunRequest", built.value))

(***************************************************************************)
(* get_response_model                                                      *)
(***************************************************************************)
\* a definition copied from the request builder: honours a default_value key
ResponseFieldDefinition_WithDefault(output_type, typedef) ==
    FieldDefinition(output_type, TypedefGet(typedef, "default_value", Ellipsis))

\* (handle_unsupported_types(output_type, UNSUPPORTED_TYPES_MAPPING), ...)
ResponseFieldDefinition(output_type, typedef) ==
    FieldDefinition(output_type, Ellipsis)

\* a loop that uses the declared type as it is, without resolving it
RECURSIVE ResponseComponentLoop_Unresolved(_, _, _)
ResponseComponentLoop_Unresolved(outputs, types_mapping, component_model) ==
    IF outputs = <<>> THEN Returns(component_model)
    ELSE LET name == outputs[1].key
             typedef == outputs[1].value
             r == handle_unsupported_types(typedef.type, types_mapping)
         IN  IF r.raised THEN Raises(<<>>)
             ELSE ResponseComponentLoop_Unresolved(Tail(outputs), types_mapping,
                      SetItem(component_model, name,
                              ResponseFieldDefinition(typedef.type, typedef)))

\* for name, typedef in outputs.items(): no try/except, a TypeError of the
\* resolver leaves the function without anything being printed
RECURSIVE ResponseComponentLoop(_, _, _)
ResponseComponentLoop(outputs, types_mapping, component_model) ==
    IF outputs = <<>> THEN Returns(component_model)
    ELSE LET name == outputs[1].key
             typedef == outputs[1].value
             r == handle_unsupported_types(typedef.type, types_mapping)
         IN  IF r.raised THEN Raises(<<>>)
             ELSE ResponseComponentLoop(Tail(outputs), types_mapping,
                      SetItem(component_model, name,
                              ResponseFieldDefinition(r.type, typedef)))

\* (create_model("ComponentParams", **component_model), ...)
ResponseTopLevelDefinition(component_model) ==
    FieldDefinition(create_model("ComponentParams", component_model), Ellipsis)

RECURSIVE ResponsePipelineLoop(_, _, _)
ResponsePipelineLoop(components, types_mapping, response_model) ==
    IF components = <<>> THEN Returns(response_model)
    ELSE LET component_name == components[1].key
             inner == ResponseComponentLoop(components[1].value, types_mapping, <<>>)
         IN  IF inner.raised THEN inner
             ELSE ResponsePipelineLoop(Tail(components), types_mapping,
                      SetItem(response_model, component_name,
                              ResponseTopLevelDefinition(inner.value)))

get_response_model(name, outputs, types_mapping) ==
    LET built == ResponsePipelineLoop(outputs, types_mapping, <<>>)
    IN  IF built.raised THEN built
        ELSE Returns(create_model(Capitalize(name) \o "RunResponse", built.value))

(***************************************************************************)
(* convert_component_output                                                *)
(* A raw value is a record with a "kind"; a value has the attribute        *)
(* to_dict iff its record has the field to_dict (the dict it returns).     *)
(***************************************************************************)
IntValue(n) == [kind |-> "int", int |-> n]
StrValue(s) == [kind |-> "str", str |-> s]
DictValue(items) == [kind |-> "dict", items |-> items]
Object(class, d) == [kind |-> "object", class |-> class, to_dict |-> d]
ListValue(elems) == [kind |-> "list", elems |-> elems]
TupleValue(elems) == [kind |-> "tuple", elems |-> elems]

\* hasattr(data, "to_dict")
HasToDict(data) == "to_dict" \in DOMAIN data

\* a conversion that never unwraps "init_parameters"
get_value_NoUnwrap(data) ==
    IF HasToDict(data) THEN data.to_dict ELSE data

\* def get_value(data)
get_value(data) ==
    IF HasToDict(data) /\ HasKey(data.to_dict.items, "init_parameters")
    THEN Lookup(data.to_dict.items, "init_parameters")
    ELSE IF HasToDict(data) THEN data.to_dict
    ELSE data

\* type(data) is list
IsList(data) == data.kind = "list"

\* [get_value(d) for d in data] if type(data) is list else get_value(data)
ConvertEntry(data) ==
    IF IsList(data)
    THEN ListValue([i \in 1..Len(data.elems) |-> get_value(data.elems[i])])
    ELSE get_value(data)

RECURSIVE ConvertLoop(_, _)
ConvertLoop(items, result) ==
    IF items = <<>> THEN result
    ELSE ConvertLoop(Tail(items), SetItem(result, items[1].key, ConvertEntry(items[1].value)))

convert_component_output(output) == Returns(ConvertLoop(output, <<>>))

(***************************************************************************)
(* Inputs the callers pass                                                 *)
(***************************************************************************)
SeqsUpTo(S, n) == UNION {[1..k -> S] : k \in 0..n}

ZipNames(names, values) == [i \in 1..Len(values) |-> Entry(names[i], values[i])]

Min(a, b) == IF a < b THEN a ELSE b

RequestTypedefs ==
    { [type |-> int, is_mandatory |-> TRUE],
      [type |-> Optional(int), is_mandatory |-> FALSE, default_value |-> "None"],
      [type |-> Optional(int), is_mandatory |-> FALSE],
      [type |-> Optional(DataFrame), is_mandatory |-> TRUE, default_value |-> "0"],
      [type |-> List(Filter), is_mandatory |-> FALSE, default_value |-> Ellipsis],
      [type |-> DataFrame, is_mandatory |-> TRUE],
      [type |-> Callable(int), is_mandatory |-> TRUE] }

ResponseTypedefs ==
    { [type |-> int],
      [type |-> DataFrame],
      [type |-> Filter, default_value |-> "None"],
      [type |-> Optional(List(DataFrame))],
      [type |-> List(Filter)],
      [type |-> Callable(int)] }

ComponentInputs ==
    {ZipNames(FieldNames, s) : s \in SeqsUpTo(RequestTypedefs, Len(FieldNames))}

ComponentOutputs ==
    {ZipNames(FieldNames, s) : s \in SeqsUpTo(ResponseTypedefs, Len(FieldNames))}

InputDescriptors ==
    {ZipNames(CompNames, s) :
        s \in SeqsUpTo(ComponentInputs, Min(MaxComponents, Len(CompNames)))}

OutputDescriptors ==
    {ZipNames(CompNames, s) :
        s \in SeqsUpTo(ComponentOutputs, Min(MaxComponents, Len(CompNames)))}

Document ==
    Object("Document", DictValue(<<Entry("id", StrValue("818170")),
                                   Entry("content", StrValue("RapidAPI"))>>))

Component ==
    Object("Component", DictValue(<<Entry("type", StrValue("AddFixedValue")),
                                    Entry("init_parameters",
                                          DictValue(<<Entry("a", IntValue(1))>>))>>))

ElementValues == {IntValue(7), Document, Component}

RawValues ==
    ElementValues
    \cup {ListValue(s) : s \in SeqsUpTo(ElementValues, MaxListLen)}
    \cup {TupleValue(s) : s \in SeqsUpTo(ElementValues, MaxListLen)}

RawOutputs ==
    {ZipNames(OutputNames, s) : s \in SeqsUpTo(RawValues, Len(OutputNames))}

(***************************************************************************)
(* Memory: the objects a call can reach                                    *)
(* The module global and the three caller-owned argument objects are       *)
(* shared by every thread; the dicts a call creates (`request_model = {}`, *)
(* `component_model = {}`, `result = {}`) belong to its frame. A local     *)
(* name holds a reference, and `d[k] = v` writes to whatever object the     *)
(* reference designates.                                                   *)
(***************************************************************************)
GlobalRef(n) == [space |-> "global", name |-> n]
LocalRef(n) == [space |-> "local", name |-> n]
NoRef == [space |-> "none", name |-> ""]

IdleFrame ==
    [fn |-> "none", pc |-> "idle", calls |-> 0, i |-> 0, j |-> 0,
     model |-> NoRef, component_model |-> NoRef,
     dicts |-> [model |-> <<>>, component_model |-> <<>>],
     ret |-> None, raised |-> FALSE, out |-> <<>>]

Memory ==
    [globals |-> [UNSUPPORTED_TYPES_MAPPING |-> UNSUPPORTED_TYPES_MAPPING,
                  pipeline_inputs |-> pipeline_inputs,
                  pipeline_outputs |-> pipeline_outputs,
                  component_output |-> component_output],
     frames |-> frames]

\* the object a reference of thread t designates
Deref(M, t, ref) ==
    IF ref.space = "global" THEN M.globals[ref.name] ELSE M.frames[t].dicts[ref.name]

\* ref[k] = v, executed by thread t
Store(M, t, ref, k, v) ==
    IF ref.space = "global"
    THEN [M EXCEPT !.globals[ref.name] = SetItem(@, k, v)]
    ELSE [M EXCEPT !.frames[t].dicts[ref.name] = SetItem(@, k, v)]

\* name = {} : a fresh empty dict, bound to the local name
NewDict(M, t, n) ==
    [M EXCEPT !.frames[t].dicts[n] = <<>>, !.frames[t][n] = LocalRef(n)]

\* return v / raise, printing `out` on the way
ReturnValue(M, t, v) ==
    [M EXCEPT !.frames[t].ret = v, !.frames[t].pc = "done"]

RaiseTypeError(M, t, out) ==
    [M EXCEPT !.frames[t].raised = TRUE, !.frames[t].out = out, !.frames[t].pc = "done"]

(***************************************************************************)
(* The three functions, one loop iteration per step                        *)
(***************************************************************************)
\* request_model = {} ; config = ConfigDict(...)
RequestStart(M, t) ==
    [NewDict(M, t, "model") EXCEPT !.frames[t].i = 1, !.frames[t].pc = "outer"]

\* for component_name, inputs in pipeline_inputs.items(): component_model = {}
\* and, the loop exhausted, return create_model(...RunRequest, **request_model)
RequestOuter(M, t) ==
    LET f == M.frames[t]
        components == Deref(M, t, GlobalRef("pipeline_inputs"))
    IN  IF f.i > Len(components)
        THEN ReturnValue(M, t, create_model(Capitalize(pipeline_name) \o "RunRequest",
                                            Deref(M, t, f.model)))
        ELSE [NewDict(M, t, "component_model") EXCEPT
                 !.frames[t].j = 1, !.frames[t].pc = "inner"]

\* for name, typedef in inputs.items(): ... and, the loop exhausted,
\* request_model[component_name] = (create_model("ComponentParams", ...), ...)
RequestInner(M, t) ==
    LET f == M.frames[t]
        component == Deref(M, t, GlobalRef("pipeline_inputs"))[f.i]
        inputs == component.value
    IN  IF f.j > Len(inputs)
        THEN [Store(M, t, f.model, component.key,
                    RequestTopLevelDefinition(Deref(M, t, f.component_model)))
                 EXCEPT !.frames[t].i = f.i + 1, !.frames[t].pc = "outer"]
        ELSE LET name == inputs[f.j].key
                 typedef == inputs[f.j].value
                 r == handle_unsupported_types(typedef.type,
                                               M.globals.UNSUPPORTED_TYPES_MAPPING)
             IN  IF r.raised
                 THEN RaiseTypeError(M, t, <<RequestDiagnostic(component.key, name, typedef)>>)
                 ELSE [Store(M, t, f.component_model, name,
                             RequestFieldDefinition(r.type, typedef))
                          EXCEPT !.frames[t].j = f.j + 1]

\* response_model = {} ; config = ConfigDict(...)
ResponseStart(M, t) ==
    [NewDict(M, t, "model") EXCEPT !.frames[t].i = 1, !.frames[t].pc = "outer"]

ResponseOuter(M, t) ==
    LET f == M.frames[t]
        components == Deref(M, t, GlobalRef("pipeline_outputs"))
    IN  IF f.i > Len(components)
        THEN ReturnValue(M, t, create_model(Capitalize(pipeline_name) \o "RunResponse",
                                            Deref(M, t, f.model)))
        ELSE [NewDict(M, t, "component_model") EXCEPT
                 !.frames[t].j = 1, !.frames[t].pc = "inner"]

ResponseInner(M, t) ==
    LET f == M.frames[t]
        component == Deref(M, t, GlobalRef("pipeline_outputs"))[f.i]
        outputs == component.value
    IN  IF f.j > Len(outputs)
        THEN [Store(M, t, f.model, component.key,
                    ResponseTopLevelDefinition(Deref(M, t, f.component_model)))
                 EXCEPT !.frames[t].i = f.i + 1, !.frames[t].pc = "outer"]
        ELSE LET name == outputs[f.j].key
                 typedef == outputs[f.j].value
                 r == handle_unsupported_types(typedef.type,
                                               M.globals.UNSUPPORTED_TYPES_MAPPING)
             IN  IF r.raised
                 THEN RaiseTypeError(M, t, <<>>)
                 ELSE [Store(M, t, f.component_model, name,
                             ResponseFieldDefinition(r.type, typedef))
                          EXCEPT !.frames[t].j = f.j + 1]

\* a normaliser that converts in place: result = component_output
ConvertStart_InPlace(M, t) ==
    [M EXCEPT !.frames[t].model = GlobalRef("component_output"),
              !.frames[t].i = 1, !.frames[t].pc = "loop"]

\* result = {}
ConvertStart(M, t) ==
    [NewDict(M, t, "model") EXCEPT !.frames[t].i = 1, !.frames[t].pc = "loop"]

\* for output_name, data in component_output.items(): result[output_name] = ...
\* and, the loop exhausted, return result
ConvertIteration(M, t) ==
    LET f == M.frames[t]
        items == Deref(M, t, GlobalRef("component_output"))
    IN  IF f.i > Len(items)
        THEN ReturnValue(M, t, Deref(M, t, f.model))
        ELSE [Store(M, t, f.model, items[f.i].key, ConvertEntry(items[f.i].value))
                 EXCEPT !.frames[t].i = f.i + 1]

(***************************************************************************)
(* The state machine: module load, then calls one after another            *)
(***************************************************************************)
Init ==
    /\ qdrant_importable \in BOOLEAN
    /\ UNSUPPORTED_TYPES_MAPPING = LoadTypesMapping(qdrant_importable)
    /\ pc = "idle"
    /\ call = "none"
    /\ pipeline_name = ""
    /\ pipeline_inputs = NoArg
    /\ pipeline_outputs = NoArg
    /\ component_output = NoArg
    /\ returned = None
    /\ raised = FALSE
    /\ stdout = <<>>
    /\ frames = [t \in Threads |-> IdleFrame]

\* a caller holds a pipeline's input descriptor and is about to ask for its request schema
PrepareRequestModel ==
    /\ pc = "idle"
    /\ \E n \in PipelineNames, d \in InputDescriptors :
          /\ pipeline_name' = n
          /\ pipeline_inputs' = d
    /\ pc' = "calling"
    /\ call' = "get_request_model"
    /\ UNCHANGED <<UNSUPPORTED_TYPES_MAPPING, qdrant_importable, frames, pipeline_outputs,
                   component_output, returned, raised, stdout>>

PrepareResponseModel ==
    /\ pc = "idle"
    /\ \E n \in PipelineNames, d \in OutputDescriptors :
          /\ pipeline_name' = n
          /\ pipeline_outputs' = d
    /\ pc' = "calling"
    /\ call' = "get_response_model"
    /\ UNCHANGED <<UNSUPPORTED_TYPES_MAPPING, qdrant_importable, frames, pipeline_inputs,
                   component_output, returned, raised, stdout>>

PrepareConvert ==
    /\ pc = "idle"
    /\ \E o \in RawOutputs : component_output' = o
    /\ pc' = "calling"
    /\ call' = "convert_component_output"
    /\ UNCHANGED <<UNSUPPORTED_TYPES_MAPPING, qdrant_importable, frames, pipeline_name,
                   pipeline_inputs, pipeline_outputs, returned, raised, stdout>>

Finish(r) ==
    /\ returned' = r.value
    /\ raised' = r.raised
    /\ stdout' = r.stdout
    /\ pc' = "returned"
    /\ UNCHANGED <<UNSUPPORTED_TYPES_MAPPING, qdrant_importable, frames, call, pipeline_name,
                   pipeline_inputs, pipeline_outputs, component_output>>

GetRequestModel ==
    /\ pc = "calling"
    /\ call = "get_request_model"
    /\ Finish(get_request_model(pipeline_name, pipeline_inputs, UNSUPPORTED_TYPES_MAPPING))

GetResponseModel ==
    /\ pc = "calling"
    /\ call = "get_response_model"
    /\ Finish(get_response_model(pipeline_name, pipeline_outputs, UNSUPPORTED_TYPES_MAPPING))

ConvertComponentOutput ==
    /\ pc = "calling"
    /\ call = "convert_component_output"
    /\ Finish(convert_component_output(component_output))

\* the caller is done with the result and its arguments
Release ==
    /\ pc = "returned"
    /\ pc' = "idle"
    /\ call' = "none"
    /\ pipeline_name' = ""
    /\ pipeline_inputs' = NoArg
    /\ pipeline_outputs' = NoArg
    /\ component_output' = NoArg
    /\ returned' = None
    /\ raised' = FALSE
    /\ stdout' = <<>>
    /\ UNCHANGED <<UNSUPPORTED_TYPES_MAPPING, qdrant_importable, frames>>

Next ==
    \/ PrepareRequestModel
    \/ PrepareResponseModel
    \/ PrepareConvert
    \/ GetRequestModel
    \/ GetResponseModel
    \/ ConvertComponentOutput
    \/ Release

Spec == Init /\ [][Next]_vars

(***************************************************************************)
(* The state machine with request-handling threads: module load, then      *)
(* every thread makes calls one after another on the callers' shared       *)
(* argument objects, and the threads' steps interleave                     *)
(***************************************************************************)
\* the docstring's descriptor, one whose middle input cannot be resolved, and
\* one with a substituted type
ThreadInputDescriptors ==
    { <<Entry("first_addition",
              <<Entry("value", [type |-> int, is_mandatory |-> TRUE]),
                Entry("add", [type |-> Optional(int), is_mandatory |-> FALSE,
                              default_value |-> "None"])>>),
        Entry("second_addition",
              <<Entry("add", [type |-> Optional(int), is_mandatory |-> FALSE])>>)>>,
      <<Entry("first_addition",
              <<Entry("value", [type |-> DataFrame, is_mandatory |-> TRUE]),
                Entry("add", [type |-> Callable(int), is_mandatory |-> TRUE])>>),
        Entry("second_addition",
              <<Entry("add", [type |-> int, is_mandatory |-> TRUE])>>)>>,
      <<Entry("double", <<Entry("value", [type |-> List(Filter), is_mandatory |-> TRUE])>>)>> }

ThreadOutputDescriptors ==
    { <<Entry("second_addition", <<Entry("result", [type |-> int])>>)>>,
      <<Entry("first_addition", <<Entry("result", [type |-> Optional(DataFrame)])>>),
        Entry("second_addition", <<Entry("result", [type |-> Callable(int)])>>)>> }

ThreadRawOutputs ==
    { <<Entry("documents", ListValue(<<Document, Component>>)),
        Entry("answer", IntValue(7))>>,
      <<Entry("documents", TupleValue(<<Document>>))>>,
      <<Entry("answer", Component)>> }

Functions == {"get_request_model", "get_response_model", "convert_component_output"}

ThreadInit ==
    /\ qdrant_importable \in BOOLEAN
    /\ UNSUPPORTED_TYPES_MAPPING = LoadTypesMapping(qdrant_importable)
    /\ pipeline_name \in PipelineNames
    /\ pipeline_inputs \in ThreadInputDescriptors
    /\ pipeline_outputs \in ThreadOutputDescriptors
    /\ component_output \in ThreadRawOutputs
    /\ frames = [t \in Threads |-> IdleFrame]
    /\ pc = "idle"
    /\ call = "none"
    /\ returned = None
    /\ raised = FALSE
    /\ stdout = <<>>

\* the memory after a step becomes the state
Commit(M) ==
    /\ frames' = M.frames
    /\ UNSUPPORTED_TYPES_MAPPING' = M.globals.UNSUPPORTED_TYPES_MAPPING
    /\ pipeline_inputs' = M.globals.pipeline_inputs
    /\ pipeline_outputs' = M.globals.pipeline_outputs
    /\ component_output' = M.globals.component_output
    /\ UNCHANGED <<qdrant_importable, pipeline_name, pc, call, returned, raised, stdout>>

\* a thread enters one of the three functions
ThreadCall(t) ==
    /\ frames[t].pc = "idle"
    /\ frames[t].calls < MaxCalls
    /\ \E fn \in Functions :
          Commit([Memory EXCEPT !.frames[t] =
                     [IdleFrame EXCEPT !.fn = fn, !.pc = "start",
                                       !.calls = frames[t].calls + 1]])

GetRequestModelStep(t) ==
    /\ frames[t].fn = "get_request_model"
    /\ \/ frames[t].pc = "start" /\ Commit(RequestStart(Memory, t))
       \/ frames[t].pc = "outer" /\ Commit(RequestOuter(Memory, t))
       \/ frames[t].pc = "inner" /\ Commit(RequestInner(Memory, t))

GetResponseModelStep(t) ==
    /\ frames[t].fn = "get_response_model"
    /\ \/ frames[t].pc = "start" /\ Commit(ResponseStart(Memory, t))
       \/ frames[t].pc = "outer" /\ Commit(ResponseOuter(Memory, t))
       \/ frames[t].pc = "inner" /\ Commit(ResponseInner(Memory, t))

ConvertComponentOutputStep(t) ==
    /\ frames[t].fn = "convert_component_output"
    /\ \/ frames[t].pc = "start" /\ Commit(ConvertStart(Memory, t))
       \/ frames[t].pc = "loop" /\ Commit(ConvertIteration(Memory, t))

\* the call is over and its frame is gone
ThreadReturn(t) ==
    /\ frames[t].pc = "done"
    /\ Commit([Memory EXCEPT !.frames[t] = [IdleFrame EXCEPT !.calls = frames[t].calls]])

ThreadNext ==
    \E t \in Threads :
        \/ ThreadCall(t)
        \/ GetRequestModelStep(t)
        \/ GetResponseModelStep(t)
        \/ ConvertComponentOutputStep(t)
        \/ ThreadReturn(t)

ThreadSpec == ThreadInit /\ [][ThreadNext]_vars

(***************************************************************************)
(* Vocabulary of the properties                                            *)
(***************************************************************************)
Done(f) == pc = "returned" /\ call = f
Succeeded(f) == Done(f) /\ ~raised

FieldNamed(model, n) ==
    model.fields[CHOOSE i \in 1..Len(model.fields) : model.fields[i].name = n]

ModelFieldNames(model) == {model.fields[i].name : i \in 1..Len(model.fields)}

\* the (component, field, typedef) triples of a descriptor, in iteration order
RECURSIVE Flatten(_)
Flatten(descriptor) ==
    IF descriptor = <<>> THEN <<>>
    ELSE [i \in 1..Len(descriptor[1].value) |->
             [component |-> descriptor[1].key,
              field     |-> descriptor[1].value[i].key,
              typedef   |-> descriptor[1].value[i].value]]
         \o Flatten(Tail(descriptor))

Unresolvable(typedef) ==
    handle_unsupported_types(typedef.type, UNSUPPORTED_TYPES_MAPPING).raised

\* the schema has one field per component and each sub-schema one field per
\* input/output name, nothing more and nothing less
SchemaMatches(model, descriptor) ==
    /\ Len(model.fields) = Len(descriptor)
    /\ ModelFieldNames(model) = Keys(descriptor)
    /\ \A i \in 1..Len(descriptor) :
          LET sub == FieldNamed(model, descriptor[i].key).annotation
          IN  /\ Len(sub.fields) = Len(descriptor[i].value)
              /\ ModelFieldNames(sub) = Keys(descriptor[i].value)

\* the field of the built schema that belongs to a flattened descriptor entry
SchemaField(model, e) == FieldNamed(FieldNamed(model, e.component).annotation, e.field)

\* the conversion of one value as the specification words it
ClaimedConversion(v) ==
    IF "to_dict" \notin DOMAIN v THEN v
    ELSE IF \E k \in 1..Len(v.to_dict.items) : v.to_dict.items[k].key = "init_parameters"
         THEN LET k == CHOOSE k \in 1..Len(v.to_dict.items) :
                           v.to_dict.items[k].key = "init_parameters"
              IN  v.to_dict.items[k].value
         ELSE v.to_dict

\* the ordered sequences among the raw values
IsSequenceValue(v) == v.kind \in {"list", "tuple"}

\* the first entry, in iteration order, on which the resolver raises
FirstUnresolvable(descriptor) ==
    Flatten(descriptor)[CHOOSE i \in 1..Len(Flatten(descriptor)) :
        /\ Unresolvable(Flatten(descriptor)[i].typedef)
        /\ \A j \in 1..(i - 1) : ~Unresolvable(Flatten(descriptor)[j].typedef)]

\* one diagnostic for the failing entry when the call raised, nothing otherwise
DiagnosticFor(descriptor) ==
    IF raised THEN stdout = <<FirstUnresolvable(descriptor)>> ELSE stdout = <<>>

\* the table as module load leaves it
TableAsLoaded ==
    /\ DOMAIN UNSUPPORTED_TYPES_MAPPING =
          {DataFrame} \cup (IF qdrant_importable THEN {Filter} ELSE {})
    /\ \A t \in DOMAIN UNSUPPORTED_TYPES_MAPPING : UNSUPPORTED_TYPES_MAPPING[t] = dict

\* a step of any thread leaves the table and every argument object as they were
CallFrame ==
    /\ UNSUPPORTED_TYPES_MAPPING' = UNSUPPORTED_TYPES_MAPPING
    /\ pipeline_inputs' = pipeline_inputs
    /\ pipeline_outputs' = pipeline_outputs
    /\ component_output' = component_output

\* what a finished call of thread t hands back, as the call run on its own would
FinishedAs(t, r) ==
    /\ frames[t].raised = r.raised
    /\ frames[t].ret = r.value
    /\ frames[t].out = r.stdout

\* interleaving changes no result: every finished call returns, raises and
\* prints what the same call does when it runs alone
InterleavedCallsAgree ==
    \A t \in Threads :
        frames[t].pc = "done" =>
            CASE frames[t].fn = "get_request_model" ->
                    FinishedAs(t, get_request_model(pipeline_name, pipeline_inputs,
                                                    UNSUPPORTED_TYPES_MAPPING))
              [] frames[t].fn = "get_response_model" ->
                    FinishedAs(t, get_response_model(pipeline_name, pipeline_outputs,
                                                     UNSUPPORTED_TYPES_MAPPING))
              [] OTHER ->
                    FinishedAs(t, convert_component_output(component_output))

\* the annotation is what the specification says the resolver yields for the declared type
TypeIsResolved(annotation, declared) ==
    /\ annotation = handle_unsupported_types(declared, UNSUPPORTED_TYPES_MAPPING).type
    /\ declared \in DOMAIN UNSUPPORTED_TYPES_MAPPING => annotation = dict
    /\ (declared.args = <<>> /\ declared \notin DOMAIN UNSUPPORTED_TYPES_MAPPING)
          => annotation = declared
    /\ (declared.args # <<>> /\ declared.args[1] \in DOMAIN UNSUPPORTED_TYPES_MAPPING)
          => annotation = Generic(declared.origin, dict)
    /\ (declared.args # <<>> /\ declared.args[1].args = <<>>
            /\ declared.args[1] \notin DOMAIN UNSUPPORTED_TYPES_MAPPING)
          => annotation = declared

FieldTypesResolved(model, descriptor) ==
    \A i \in 1..Len(Flatten(descriptor)) :
        LET e == Flatten(descriptor)[i]
        IN  TypeIsResolved(SchemaField(model, e).annotation, e.typedef.type)

(***************************************************************************)
(* C1: when construction succeeds, the top-level fields of the generated   *)
(* schema are exactly the component names of the descriptor and the fields *)
(* of each sub-schema exactly the input (output) names of that component.  *)
(***************************************************************************)
C1_FieldsMatchDescriptor ==
    /\ Succeeded("get_request_model") => SchemaMatches(returned, pipeline_inputs)
    /\ Succeeded("get_response_model") => SchemaMatches(returned, pipeline_outputs)

C1_Witness ==
    /\ Succeeded("get_request_model")
    /\ Len(pipeline_inputs) = 2
    /\ Len(pipeline_inputs[1].value) = 2
    /\ Len(pipeline_inputs[2].value) = 1
    /\ ~pipeline_inputs[1].value[2].value.is_mandatory
    /\ Len(returned.fields) = 2

(***************************************************************************)
(* C2: in the request schema an input with a default_value entry is        *)
(* optional with exactly that default, and an input without one is         *)
(* required, whatever is_mandatory says.                                   *)
(***************************************************************************)
C2_DefaultEntryDecidesOptionality ==
    Succeeded("get_request_model") =>
        \A i \in 1..Len(Flatten(pipeline_inputs)) :
            LET e == Flatten(pipeline_inputs)[i]
                f == SchemaField(returned, e)
            IN  IF "default_value" \in DOMAIN e.typedef
                THEN ~f.required /\ f.default = e.typedef.default_value
                ELSE f.required

\* what the request builder does guarantee: a default_value entry other than
\* `...` makes the field optional with that default, anything else required,
\* and is_mandatory plays no part
RequestOptionalityExceptEllipsis ==
    Succeeded("get_request_model") =>
        \A i \in 1..Len(Flatten(pipeline_inputs)) :
            LET e == Flatten(pipeline_inputs)[i]
                f == SchemaField(returned, e)
            IN  IF "default_value" \in DOMAIN e.typedef /\ e.typedef.default_value # Ellipsis
                THEN ~f.required /\ f.default = e.typedef.default_value
                ELSE f.required /\ f.default = PydanticUndefined

(***************************************************************************)
(* C3: in the response schema every field is required at both levels,      *)
(* whatever extra keys (such as default_value) the output typedef carries. *)
(***************************************************************************)
C3_ResponseFieldsRequired ==
    Succeeded("get_response_model") =>
        /\ \A i \in 1..Len(returned.fields) :
              /\ returned.fields[i].required
              /\ \A j \in 1..Len(returned.fields[i].annotation.fields) :
                    returned.fields[i].annotation.fields[j].required
        /\ \A i \in 1..Len(Flatten(pipeline_outputs)) :
              SchemaField(returned, Flatten(pipeline_outputs)[i]).required

C3_Witness ==
    /\ Succeeded("get_response_model")
    /\ Len(pipeline_outputs) = 2
    /\ \E i \in 1..Len(Flatten(pipeline_outputs)) :
          "default_value" \in DOMAIN Flatten(pipeline_outputs)[i].typedef

(***************************************************************************)
(* C4: the normaliser returns a mapping with the keys of its input; a      *)
(* value that is not a sequence comes back unchanged when it has no dict   *)
(* conversion, as the mapping under "init_parameters" when its dict        *)
(* conversion has that key, and as the full dict conversion otherwise.     *)
(***************************************************************************)
C4_KeysKeptValuesConverted ==
    Done("convert_component_output") =>
        /\ ~raised
        /\ Len(returned) = Len(component_output)
        /\ \A i \in 1..Len(component_output) :
              /\ returned[i].key = component_output[i].key
              /\ ~IsSequenceValue(component_output[i].value) =>
                    returned[i].value = ClaimedConversion(component_output[i].value)

C4_Witness ==
    /\ Done("convert_component_output")
    /\ Len(component_output) = 2
    /\ component_output[1].value = Component
    /\ component_output[2].value = Document
    /\ returned[1].value = DictValue(<<Entry("a", IntValue(1))>>)

(***************************************************************************)
(* C5: every entry whose raw value is an ordered sequence, of whatever     *)
(* kind, comes back as a sequence of the same length whose i-th element is *)
(* the conversion of the i-th input element.                               *)
(***************************************************************************)
C5_EverySequenceConvertedElementwise ==
    Done("convert_component_output") =>
        \A i \in 1..Len(component_output) :
            LET v == component_output[i].value
                r == returned[i].value
            IN  IsSequenceValue(v) =>
                    /\ "elems" \in DOMAIN r
                    /\ Len(r.elems) = Len(v.elems)
                    /\ \A j \in 1..Len(v.elems) : r.elems[j] = ClaimedConversion(v.elems[j])

\* what the normaliser does guarantee: a value whose type is exactly list is
\* converted element by element, any other value as a whole
ListsConvertedElementwise ==
    Done("convert_component_output") =>
        \A i \in 1..Len(component_output) :
            LET v == component_output[i].value
                r == returned[i].value
            IN  IF v.kind = "list"
                THEN /\ r.kind = "list"
                     /\ Len(r.elems) = Len(v.elems)
                     /\ \A j \in 1..Len(v.elems) : r.elems[j] = ClaimedConversion(v.elems[j])
                ELSE r = ClaimedConversion(v)

(***************************************************************************)
(* C6: if the resolver raises on any field of the descriptor, the builder  *)
(* raises and returns no schema (no partial schema, no recovery).          *)
(***************************************************************************)
C6_ResolverErrorAbortsConstruction ==
    /\ Done("get_request_model") =>
          ((\E i \in 1..Len(Flatten(pipeline_inputs)) :
                Unresolvable(Flatten(pipeline_inputs)[i].typedef))
             => raised /\ returned = None)
    /\ Done("get_response_model") =>
          ((\E i \in 1..Len(Flatten(pipeline_outputs)) :
                Unresolvable(Flatten(pipeline_outputs)[i].typedef))
             => raised /\ returned = None)

\* the failing field is neither the first nor the last one iterated
C6_Witness ==
    /\ Done("get_request_model")
    /\ raised
    /\ returned = None
    /\ Len(Flatten(pipeline_inputs)) = 4
    /\ ~Unresolvable(Flatten(pipeline_inputs)[1].typedef)
    /\ ~Unresolvable(Flatten(pipeline_inputs)[2].typedef)
    /\ Unresolvable(Flatten(pipeline_inputs)[3].typedef)
    /\ ~Unresolvable(Flatten(pipeline_inputs)[4].typedef)

(***************************************************************************)
(* C7: whenever the resolver raises during construction, the builder       *)
(* (request or response) prints exactly one diagnostic naming the          *)
(* component, the field and the raw type descriptor, and prints nothing    *)
(* when construction succeeds.                                             *)
(***************************************************************************)
C7_EveryBuilderPrintsDiagnostic ==
    /\ Done("get_request_model") => DiagnosticFor(pipeline_inputs)
    /\ Done("get_response_model") => DiagnosticFor(pipeline_outputs)

\* what the builders do guarantee: the request builder prints the diagnostic,
\* the response builder never prints
RequestBuilderAlonePrintsDiagnostic ==
    /\ Done("get_request_model") => DiagnosticFor(pipeline_inputs)
    /\ Done("get_response_model") => stdout = <<>>

(***************************************************************************)
(* C8: no step of any call, in any sequence or interleaving of calls by    *)
(* the threads and whether the call returns or raises, changes the         *)
(* substitution table, the descriptor or the raw output mapping; the table *)
(* always is what module load made it: DataFrame -> dict, plus             *)
(* Filter -> dict only when the optional dependency was importable.        *)
(***************************************************************************)
C8_CallsLeaveTableAndArgumentsAlone == []TableAsLoaded /\ [][CallFrame]_vars

\* both threads are in the middle of their second call at the same time: t1 is in
\* the inner loop of get_request_model, about to resolve an input on which the
\* resolver raises, and t2 has just converted the list entry of the raw output
C8_Witness ==
    /\ TableAsLoaded
    /\ frames["t1"].calls = 2
    /\ frames["t1"].fn = "get_request_model"
    /\ frames["t1"].pc = "inner"
    /\ frames["t1"].i = 1
    /\ frames["t1"].j = 2
    /\ Len(pipeline_inputs[1].value) = 2
    /\ Unresolvable(pipeline_inputs[1].value[2].value)
    /\ frames["t2"].calls = 2
    /\ frames["t2"].fn = "convert_component_output"
    /\ frames["t2"].pc = "loop"
    /\ frames["t2"].i = 2
    /\ component_output[1].value = ListValue(<<Document, Component>>)
    /\ Len(frames["t2"].dicts.model) = 1
    /\ frames["t2"].dicts.model[1].value # component_output[1].value

(***************************************************************************)
(* C9: the type of every field of a built schema is the resolver's result  *)
(* for the declared type: the substitute (dict) for a key of the table,    *)
(* the declared type itself when it is not a key, and the same generic     *)
(* wrapper around the substitute for a generic that wraps a key.           *)
(***************************************************************************)
C9_FieldTypeIsResolverResult ==
    /\ Succeeded("get_request_model") => FieldTypesResolved(returned, pipeline_inputs)
    /\ Succeeded("get_response_model") => FieldTypesResolved(returned, pipeline_outputs)

C9_Witness ==
    /\ Succeeded("get_response_model")
    /\ Len(pipeline_outputs) = 2
    /\ pipeline_outputs[1].value = <<Entry("value", [type |-> DataFrame]),
                                     Entry("add", [type |-> Optional(List(DataFrame))])>>
    /\ pipeline_outputs[2].value = <<Entry("value", [type |-> int])>>
    /\ SchemaField(returned, Flatten(pipeline_outputs)[1]).annotation = dict
    /\ SchemaField(returned, Flatten(pipeline_outputs)[2]).annotation = Optional(List(dict))

(***************************************************************************)
(* C10: every top-level component field of the request schema is required, *)
(* also for a component whose inputs all have defaults and for a component *)
(* with no inputs.                                                         *)
(***************************************************************************)
C10_RequestComponentsRequired ==
    Succeeded("get_request_model") =>
        /\ Len(returned.fields) = Len(pipeline_inputs)
        /\ \A i \in 1..Len(returned.fields) : returned.fields[i].required

C10_Witness ==
    /\ Succeeded("get_request_model")
    /\ Len(pipeline_inputs) = 2
    /\ pipeline_inputs[1].value = <<>>
    /\ Len(pipeline_inputs[2].value) = 2
    /\ \A j \in 1..2 : /\ "default_value" \in DOMAIN pipeline_inputs[2].value[j].value
                       /\ pipeline_inputs[2].value[j].value.default_value # Ellipsis
    /\ returned.fields[1].required
    /\ returned.fields[2].required

====
